---- MODULE Spec2Model ----
(***************************************************************************)
(* Live voice session controller of Components/ChatWidget.tsx:             *)
(* startLiveSession, stopLiveSession, resetIdleTimer and the transport     *)
(* callbacks onopen / onmessage / onclose / onerror, together with the     *)
(* browser objects they own (audio contexts, capture stream, timers, the   *)
(* live transport session).                                                *)
(*                                                                         *)
(* Every handler runs to completion on the single JavaScript event loop,   *)
(* so each handler is one action.  startLiveSession is an async function:  *)
(* it is cut at its await points (resume(), getUserMedia()) and each       *)
(* continuation is an action of its own.  Each handler is written as an    *)
(* operator from a state record to a state record, so that handlers that   *)
(* call stopLiveSession are compositions, as in the code.                  *)
(***************************************************************************)
EXTENDS Integers, FiniteSets, Sequences, TLC

\* Number of start() invocations that get past the guards of lines 143-149.
MaxStarts == 2

\* Number of inbound audio chunks delivered over all sessions.
MaxChunks == 1

\* Largest value read from the output context's currentTime.
MaxClock == 1

\* Largest duration of a decoded chunk.
MaxDur == 1

\* Number of captured frames handed to onaudioprocess.
MaxFrames == 2

\* Samples per captured frame (4096 in the code, line 234).
FrameLen == 2

\* Number of steps in which time passes.
MaxTicks == 2

\* Spec lets start() get past its guards MaxStarts times; SpecShort one time
\* fewer.
ShortStarts == MaxStarts - 1

\* SpecRestart lets time pass in one step fewer than the other timed
\* specifications.
ShortTicks == MaxTicks - 1

\* SpecPlay delivers one chunk more than the lifecycle specifications,
\* SpecPlayLong two more.
PlayChunks == MaxChunks + 1
LongChunks == MaxChunks + 2

\* Lines 29-31 and the delay of line 266.  Times are in milliseconds; sample
\* values and the threshold are in hundredths of full scale (0.01 is 1).
SILENCE_THRESHOLD == 1
SPEECH_HANGOVER_MS == 800
IDLE_TIMEOUT_MS == 90000
MIC_DELAY_MS == 800

Max(a, b) == IF a >= b THEN a ELSE b

\* The sequence q without its k-th element.
Without(q, k) == [j \in 1..(Len(q) - 1) |-> IF j < k THEN q[j] ELSE q[j + 1]]

Runs == 1..MaxStarts

\* The entry of sent for the greeting instruction (frames are 1, 2, ...).
Greeting == 0

\* A ref whose .current is null.
Null == 0

\* errorMsg values (useState<string | null>).
NoMsg == "null"
MsgMissingKey == "Missing API Key. Please configure process.env.API_KEY."
MsgInactivity == "Session ended due to inactivity."
MsgTimedOut == "Session timed out. Please resume."
MsgSessionError == "Session Error: Connection interrupted"
MsgMicDenied == "Connection failed: Microphone access denied. Please check browser permissions."
MsgConnFailed == "Connection failed: Unknown error"

ConnFailedMsgs == {MsgMicDenied, MsgConnFailed}

VARIABLES
  apiKey,                 \* process.env.API_KEY is set (fixed by the build)
  isLiveActive,           \* useState, line 37
  connectionStatus,       \* useState, line 38
  errorMsg,               \* useState, line 40
  sessionPromiseRef,      \* run whose connect() promise the ref holds, or Null
  inputContextRef,        \* run whose input AudioContext the ref holds, or Null
  outputContextRef,       \* run whose output AudioContext the ref holds, or Null
  streamRef,              \* run whose MediaStream the ref holds, or Null
  scriptProcessorRef,     \* run whose ScriptProcessorNode the ref holds, or Null
  keepAliveIntervalRef,   \* run whose keepalive interval the ref holds, or Null
  idleTimerRef,           \* "null", "armed" (a pending timeout) or "fired"
  isUserDisconnectingRef, \* line 51
  nextStartTimeRef,       \* line 46
  sourcesRef,             \* number of AudioBufferSourceNodes in the set, line 47
  nStarted,               \* start() invocations that got past the guards
  pc,                     \* per run: where its startLiveSession invocation is
  inCtx,                  \* per run: its input AudioContext
  outCtx,                 \* per run: its output AudioContext
  keepAlive,              \* per run: its setInterval keepalive
  stream,                 \* per run: its MediaStream
  sess,                   \* per run: its live transport session
  closeCause,             \* per run: who called close() on its session
  micTimer,               \* per run: the 800 ms setTimeout of its onopen is pending
  proc,                   \* per run: the ScriptProcessorNode its micTimer created
  idleTimers,             \* number of idle setTimeouts pending in the browser
  decodes,                \* pending decodeAudioData calls, in arrival order:
                          \* the run of the output context each was given
  nChunks,                \* audio chunks delivered so far
  doubleRelease,          \* a release call was made on an already released object
  now,                    \* Date.now() and the clock of setTimeout, in ms
  idleResetAt,            \* value of now at the latest resetIdleTimer call
  openedAt,               \* per run: value of now when its onopen ran
  lastSpeechTimeRef,      \* line 54
  sent,                   \* per run: what was passed to its session's
                          \* sendRealtimeInput, in call order: Greeting or the
                          \* capture number of a frame
  nFrames,                \* frames captured so far
  nTicks,                 \* steps so far in which time passed
  outClock,               \* currentTime of the output AudioContext
  chunkLog,               \* the chunks that reached line 275, in arrival order
  visualizerState         \* useState, line 57

vars == <<apiKey, isLiveActive, connectionStatus, errorMsg, sessionPromiseRef,
          inputContextRef, outputContextRef, streamRef, scriptProcessorRef,
          keepAliveIntervalRef, idleTimerRef, isUserDisconnectingRef,
          nextStartTimeRef, sourcesRef, nStarted, pc, inCtx, outCtx, keepAlive,
          stream, sess, closeCause, micTimer, proc, idleTimers, decodes,
          nChunks, doubleRelease, now, idleResetAt, openedAt, lastSpeechTimeRef,
          sent, nFrames, nTicks, outClock, chunkLog, visualizerState>>

\* The current state as one record; handlers map such a record to the next.
St ==
  [apiKey |-> apiKey, isLiveActive |-> isLiveActive,
   connectionStatus |-> connectionStatus, errorMsg |-> errorMsg,
   sessionPromiseRef |-> sessionPromiseRef, inputContextRef |-> inputContextRef,
   outputContextRef |-> outputContextRef, streamRef |-> streamRef,
   scriptProcessorRef |-> scriptProcessorRef,
   keepAliveIntervalRef |-> keepAliveIntervalRef, idleTimerRef |-> idleTimerRef,
   isUserDisconnectingRef |-> isUserDisconnectingRef,
   nextStartTimeRef |-> nextStartTimeRef, sourcesRef |-> sourcesRef,
   nStarted |-> nStarted, pc |-> pc, inCtx |-> inCtx, outCtx |-> outCtx,
   keepAlive |-> keepAlive, stream |-> stream, sess |-> sess,
   closeCause |-> closeCause, micTimer |-> micTimer, proc |-> proc,
   idleTimers |-> idleTimers, decodes |-> decodes, nChunks |-> nChunks,
   doubleRelease |-> doubleRelease, now |-> now, idleResetAt |-> idleResetAt,
   openedAt |-> openedAt, lastSpeechTimeRef |-> lastSpeechTimeRef, sent |-> sent,
   nFrames |-> nFrames, nTicks |-> nTicks, outClock |-> outClock,
   chunkLog |-> chunkLog, visualizerState |-> visualizerState]

\* The effect with sourcesRef.current.size left out: connected is always
\* shown as listening.
visualizerEffectNoSpeaking(s) ==
  IF s.connectionStatus \in {"connecting", "reconnecting"}
  THEN [s EXCEPT !.visualizerState = "connecting"]
  ELSE IF s.connectionStatus = "connected"
  THEN [s EXCEPT !.visualizerState = "listening"]
  ELSE s

\* The effect of lines 103-115.
visualizerEffect(s) ==
  IF s.connectionStatus \in {"connecting", "reconnecting"}
  THEN [s EXCEPT !.visualizerState = "connecting"]
  ELSE IF s.connectionStatus = "connected"
  THEN [s EXCEPT !.visualizerState =
                   IF s.sourcesRef > 0 THEN "speaking" ELSE "listening"]
  ELSE s

\* A handler that took s to r is followed by the re-render its state updates
\* queued (setConnectionStatus, setForceUpdate of lines 285 and 291), and the
\* effect runs when one of its dependencies (line 115) has changed.
Rendered(s, r) ==
  IF r.connectionStatus # s.connectionStatus \/ r.sourcesRef # s.sourcesRef
  THEN visualizerEffect(r)
  ELSE r

\* The next state is the record r, rendered.
Becomes(r) ==
  /\ visualizerState' = Rendered(St, r).visualizerState
  /\ apiKey' = r.apiKey
  /\ isLiveActive' = r.isLiveActive
  /\ connectionStatus' = r.connectionStatus
  /\ errorMsg' = r.errorMsg
  /\ sessionPromiseRef' = r.sessionPromiseRef
  /\ inputContextRef' = r.inputContextRef
  /\ outputContextRef' = r.outputContextRef
  /\ streamRef' = r.streamRef
  /\ scriptProcessorRef' = r.scriptProcessorRef
  /\ keepAliveIntervalRef' = r.keepAliveIntervalRef
  /\ idleTimerRef' = r.idleTimerRef
  /\ isUserDisconnectingRef' = r.isUserDisconnectingRef
  /\ nextStartTimeRef' = r.nextStartTimeRef
  /\ sourcesRef' = r.sourcesRef
  /\ nStarted' = r.nStarted
  /\ pc' = r.pc
  /\ inCtx' = r.inCtx
  /\ outCtx' = r.outCtx
  /\ keepAlive' = r.keepAlive
  /\ stream' = r.stream
  /\ sess' = r.sess
  /\ closeCause' = r.closeCause
  /\ micTimer' = r.micTimer
  /\ proc' = r.proc
  /\ idleTimers' = r.idleTimers
  /\ decodes' = r.decodes
  /\ nChunks' = r.nChunks
  /\ doubleRelease' = r.doubleRelease
  /\ now' = r.now
  /\ idleResetAt' = r.idleResetAt
  /\ openedAt' = r.openedAt
  /\ lastSpeechTimeRef' = r.lastSpeechTimeRef
  /\ sent' = r.sent
  /\ nFrames' = r.nFrames
  /\ nTicks' = r.nTicks
  /\ outClock' = r.outClock
  /\ chunkLog' = r.chunkLog

Init ==
  /\ apiKey \in BOOLEAN
  /\ isLiveActive = FALSE
  /\ connectionStatus = "disconnected"
  /\ errorMsg = NoMsg
  /\ sessionPromiseRef = Null
  /\ inputContextRef = Null
  /\ outputContextRef = Null
  /\ streamRef = Null
  /\ scriptProcessorRef = Null
  /\ keepAliveIntervalRef = Null
  /\ idleTimerRef = "null"
  /\ isUserDisconnectingRef = FALSE
  /\ nextStartTimeRef = 0
  /\ sourcesRef = 0
  /\ nStarted = 0
  /\ pc = [i \in Runs |-> "unborn"]
  /\ inCtx = [i \in Runs |-> "none"]
  /\ outCtx = [i \in Runs |-> "none"]
  /\ keepAlive = [i \in Runs |-> "none"]
  /\ stream = [i \in Runs |-> "none"]
  /\ sess = [i \in Runs |-> "none"]
  /\ closeCause = [i \in Runs |-> "none"]
  /\ micTimer = [i \in Runs |-> FALSE]
  /\ proc = [i \in Runs |-> "none"]
  /\ idleTimers = 0
  /\ decodes = << >>
  /\ nChunks = 0
  /\ doubleRelease = FALSE
  /\ now = 0
  /\ idleResetAt = 0
  /\ openedAt = [i \in Runs |-> 0]
  /\ lastSpeechTimeRef = 0
  /\ sent = [i \in Runs |-> << >>]
  /\ nFrames = 0
  /\ nTicks = 0
  /\ outClock = 0
  /\ chunkLog = << >>
  /\ visualizerState = "listening"

(***************************************************************************)
(* resetIdleTimer, lines 129-138.  clearTimeout of the handle in the ref   *)
(* (a no-op when that timer has already fired), then a fresh setTimeout    *)
(* whose handle replaces it.                                               *)
(***************************************************************************)
\* resetIdleTimer with line 130 left out: the old timeout stays pending.
resetIdleTimerNoClear(s) ==
  [s EXCEPT !.idleTimers = @ + 1, !.idleTimerRef = "armed",
            !.idleResetAt = s.now]

\* The timeout is due IDLE_TIMEOUT_MS after the call (line 137).
resetIdleTimer(s) ==
  LET pending == IF s.idleTimerRef = "armed" THEN s.idleTimers - 1 ELSE s.idleTimers
  IN  [s EXCEPT !.idleTimers = pending + 1, !.idleTimerRef = "armed",
                !.idleResetAt = s.now]

\* When the timeout whose handle idleTimerRef holds is due.
idleDue(s) == s.idleResetAt + IDLE_TIMEOUT_MS

(***************************************************************************)
(* stopLiveSession, lines 347-397, step by step in source order.           *)
(***************************************************************************)

\* lines 348-354
stopFlags(s, userInitiated) ==
  LET s1 == IF userInitiated
            THEN [s EXCEPT !.isUserDisconnectingRef = TRUE, !.errorMsg = NoMsg]
            ELSE s
  IN  [s1 EXCEPT !.isLiveActive = FALSE, !.connectionStatus = "disconnected"]

\* lines 357-360
stopKeepAlive(s) ==
  LET k == s.keepAliveIntervalRef
  IN  IF k = Null THEN s
      ELSE [s EXCEPT !.keepAlive[k] = "cleared",
                     !.doubleRelease = @ \/ s.keepAlive[k] = "cleared",
                     !.keepAliveIntervalRef = Null]

\* lines 361-364
stopIdleTimer(s) ==
  IF s.idleTimerRef = "null" THEN s
  ELSE [s EXCEPT !.idleTimers = IF s.idleTimerRef = "armed" THEN @ - 1 ELSE @,
                 !.idleTimerRef = "null"]

\* lines 366-371.  sessionPromise.then(session => session.close()): on a
\* resolved promise close() runs right after this handler; on a pending one
\* it is deferred until the session has opened (closeCause records it); on a
\* promise that never resolves it never runs.  cause names the caller.
stopSession(s, cause) ==
  LET p == s.sessionPromiseRef
  IN  IF p = Null THEN s
      ELSE LET s1 == [s EXCEPT !.sessionPromiseRef = Null]
           IN  CASE s.sess[p] = "open" ->
                      [s1 EXCEPT !.sess[p] = "closing", !.closeCause[p] = cause]
                 [] s.sess[p] = "opening" ->
                      [s1 EXCEPT !.closeCause[p] = cause,
                                 !.doubleRelease = @ \/ s.closeCause[p] # "none"]
                 [] s.sess[p] = "closing" ->
                      [s1 EXCEPT !.doubleRelease = @ \/ s.closeCause[p] # "none"]
                 [] OTHER -> s1

\* stopStream with line 375 left out: the tracks are stopped and the ref kept.
stopStreamKeepsRef(s) ==
  LET m == s.streamRef
  IN  IF m = Null THEN s
      ELSE [s EXCEPT !.stream[m] = "stopped",
                     !.doubleRelease = @ \/ s.stream[m] = "stopped"]

\* lines 373-376
stopStream(s) ==
  LET m == s.streamRef
  IN  IF m = Null THEN s
      ELSE [s EXCEPT !.stream[m] = "stopped",
                     !.doubleRelease = @ \/ s.stream[m] = "stopped",
                     !.streamRef = Null]

\* lines 378-381
stopProcessor(s) ==
  LET q == s.scriptProcessorRef
  IN  IF q = Null THEN s
      ELSE [s EXCEPT !.proc[q] = "disconnected",
                     !.doubleRelease = @ \/ s.proc[q] = "disconnected",
                     !.scriptProcessorRef = Null]

\* lines 383-387
stopSources(s) ==
  [s EXCEPT !.sourcesRef = 0, !.nextStartTimeRef = 0]

\* lines 389-392
stopInputContext(s) ==
  LET c == s.inputContextRef
  IN  IF c = Null THEN s
      ELSE [s EXCEPT !.inCtx[c] = "closed",
                     !.doubleRelease = @ \/ s.inCtx[c] = "closed",
                     !.inputContextRef = Null]

\* lines 393-396
stopOutputContext(s) ==
  LET c == s.outputContextRef
  IN  IF c = Null THEN s
      ELSE [s EXCEPT !.outCtx[c] = "closed",
                     !.doubleRelease = @ \/ s.outCtx[c] = "closed",
                     !.outputContextRef = Null]

stopLiveSession(s, userInitiated, cause) ==
  stopOutputContext(stopInputContext(stopSources(stopProcessor(stopStream(
    stopSession(stopIdleTimer(stopKeepAlive(stopFlags(s, userInitiated))),
                cause))))))

\* stopLiveSession when a release call throws.  thrower names the call:
\* "tracks" (track.stop(), line 374), "processor" (disconnect(), line 379) or
\* "none".  No try/catch encloses these calls, so the exception leaves the
\* function there: the ref of the throwing step is not cleared and the later
\* steps do not run.  The state updates of lines 348-354 were already queued.
stopLiveSessionThrows(s, userInitiated, cause, thrower) ==
  LET s1 == stopSession(stopIdleTimer(stopKeepAlive(stopFlags(s, userInitiated))),
                        cause)
  IN  CASE thrower = "tracks" /\ s1.streamRef # Null -> s1
        [] thrower = "processor" /\ s1.scriptProcessorRef # Null -> stopStream(s1)
        [] OTHER ->
             stopOutputContext(stopInputContext(stopSources(stopProcessor(
               stopStream(s1)))))

(***************************************************************************)
(* startLiveSession, lines 142-345, cut at its await points.               *)
(***************************************************************************)

\* The catch block, lines 339-344, reached by run i with message msg.
startCatch(s, i, msg) ==
  [s EXCEPT !.connectionStatus = "disconnected", !.isLiveActive = FALSE,
            !.errorMsg = msg, !.pc[i] = "returned"]

\* lines 169-180: setInterval; its handle overwrites the ref.
startKeepAlive(s, i) ==
  [s EXCEPT !.keepAlive[i] = "running", !.keepAliveIntervalRef = i]

\* startLiveSession without the check of lines 146-149.
startLiveSessionNoKeyCheck(s, ctx) ==
  IF s.isLiveActive THEN s
  ELSE
    LET i  == s.nStarted + 1
        s1 == resetIdleTimer(
                [s EXCEPT !.errorMsg = NoMsg, !.connectionStatus = "connecting",
                          !.isLiveActive = TRUE, !.isUserDisconnectingRef = FALSE,
                          !.lastSpeechTimeRef = s.now, !.nStarted = i])
        s2 == [s1 EXCEPT !.inCtx[i] = "open", !.inputContextRef = i]
        s3 == [s2 EXCEPT !.outCtx[i] = "open", !.outputContextRef = i]
    IN  CASE ctx = "throwInput"  -> startCatch(s1, i, MsgConnFailed)
          [] ctx = "throwOutput" -> startCatch(s2, i, MsgConnFailed)
          [] ctx = "suspended"   -> [s3 EXCEPT !.pc[i] = "awaitResume"]
          [] OTHER -> [startKeepAlive(s3, i) EXCEPT !.pc[i] = "awaitMic"]

\* startLiveSession with line 155 clearing lastSpeechTimeRef instead of
\* setting it to Date.now().
startLiveSessionClearsSpeech(s, ctx) ==
  IF s.isLiveActive THEN s
  ELSE IF ~s.apiKey THEN [s EXCEPT !.errorMsg = MsgMissingKey]
  ELSE
    LET i  == s.nStarted + 1
        s1 == resetIdleTimer(
                [s EXCEPT !.errorMsg = NoMsg, !.connectionStatus = "connecting",
                          !.isLiveActive = TRUE, !.isUserDisconnectingRef = FALSE,
                          !.lastSpeechTimeRef = 0, !.nStarted = i])
        s2 == [s1 EXCEPT !.inCtx[i] = "open", !.inputContextRef = i]
        s3 == [s2 EXCEPT !.outCtx[i] = "open", !.outputContextRef = i]
    IN  CASE ctx = "throwInput"  -> startCatch(s1, i, MsgConnFailed)
          [] ctx = "throwOutput" -> startCatch(s2, i, MsgConnFailed)
          [] ctx = "suspended"   -> [s3 EXCEPT !.pc[i] = "awaitResume"]
          [] OTHER -> [startKeepAlive(s3, i) EXCEPT !.pc[i] = "awaitMic"]

\* lines 143-166, up to the first await.  ctx is what the browser does with
\* the two AudioContext constructors and the output context's state:
\* "throwInput", "throwOutput", "suspended" or "running".
startLiveSession(s, ctx) ==
  IF s.isLiveActive THEN s
  ELSE IF ~s.apiKey THEN [s EXCEPT !.errorMsg = MsgMissingKey]
  ELSE
    LET i  == s.nStarted + 1
        s1 == resetIdleTimer(
                [s EXCEPT !.errorMsg = NoMsg, !.connectionStatus = "connecting",
                          !.isLiveActive = TRUE, !.isUserDisconnectingRef = FALSE,
                          !.lastSpeechTimeRef = s.now, !.nStarted = i])
        s2 == [s1 EXCEPT !.inCtx[i] = "open", !.inputContextRef = i]
        s3 == [s2 EXCEPT !.outCtx[i] = "open", !.outputContextRef = i]
    IN  CASE ctx = "throwInput"  -> startCatch(s1, i, MsgConnFailed)
          [] ctx = "throwOutput" -> startCatch(s2, i, MsgConnFailed)
          [] ctx = "suspended"   -> [s3 EXCEPT !.pc[i] = "awaitResume"]
          [] OTHER -> [startKeepAlive(s3, i) EXCEPT !.pc[i] = "awaitMic"]

\* lines 165-180: the continuation after await resume().
afterResume(s, i, ok) ==
  IF ok THEN [startKeepAlive(s, i) EXCEPT !.pc[i] = "awaitMic"]
  ELSE startCatch(s, i, MsgConnFailed)

\* afterGetUserMedia without the special case of lines 188-190: a denial is
\* rethrown like any other error.
afterGetUserMediaRethrows(s, i, mic) ==
  CASE mic \in {"denied", "failed"} -> startCatch(s, i, MsgConnFailed)
    [] OTHER ->
       [s EXCEPT !.stream[i] = "live", !.streamRef = i,
                 !.sess[i] = "opening", !.sessionPromiseRef = i,
                 !.pc[i] = "returned"]

\* lines 185-337: the continuation after await getUserMedia().  mic is
\* "granted", "denied" (NotAllowedError) or "failed" (any other error).
\* connect() is an async function: it returns its promise without throwing.
afterGetUserMedia(s, i, mic) ==
  CASE mic = "denied" -> startCatch(s, i, MsgMicDenied)
    [] mic = "failed" -> startCatch(s, i, MsgConnFailed)
    [] OTHER ->
       [s EXCEPT !.stream[i] = "live", !.streamRef = i,
                 !.sess[i] = "opening", !.sessionPromiseRef = i,
                 !.pc[i] = "returned"]

(***************************************************************************)
(* Transport callbacks and timers.                                         *)
(***************************************************************************)

\* onopen, lines 215-267.  The handler sets the status and starts the 800 ms
\* timer; then the connect promise resolves and a close() that an earlier
\* stopLiveSession queued on it (closeCause) runs.
\* The greeting is passed to sendRealtimeInput as soon as the promise has
\* resolved (lines 220-226), whether or not a queued close() ran before it.
onopen(s, i) ==
  LET s1 == [s EXCEPT !.connectionStatus = "connected", !.micTimer[i] = TRUE,
                      !.openedAt[i] = s.now,
                      !.sent[i] = Append(@, Greeting)]
  IN  [s1 EXCEPT !.sess[i] = IF s.closeCause[i] # "none" THEN "closing" ELSE "open"]

\* The timeout of line 266 with a delay of 0.
micDueNoDelay(s, i) == s.openedAt[i]

\* When the timeout that run i's onopen set is due (line 266).
micDue(s, i) == s.openedAt[i] + MIC_DELAY_MS

\* The setTimeout callback of onopen, lines 229-266.
micAttach(s, i) ==
  LET s1 == [s EXCEPT !.micTimer[i] = FALSE]
  IN  IF s.inputContextRef = Null \/ s.streamRef = Null THEN s1
      ELSE IF s.isUserDisconnectingRef THEN s1
      ELSE [s1 EXCEPT !.proc[i] = "attached", !.scriptProcessorRef = i]

\* calculateRMS, lines 121-127, compared with a threshold: sqrt(sum / n) > th
\* is decided on the squares, sum > th * th * n.
RECURSIVE SumSq(_)
SumSq(inputData) ==
  IF inputData = << >> THEN 0
  ELSE Head(inputData) * Head(inputData) + SumSq(Tail(inputData))

rmsExceeds(inputData, th) == SumSq(inputData) > th * th * Len(inputData)

\* onaudioprocess forwarding a frame only when this frame is speech (no
\* hangover).
onaudioprocessNoHangover(s, i, inputData) ==
  LET loud == rmsExceeds(inputData, SILENCE_THRESHOLD)
      s1 == IF loud THEN resetIdleTimer([s EXCEPT !.lastSpeechTimeRef = s.now])
            ELSE s
      s2 == [s1 EXCEPT !.nFrames = @ + 1]
  IN  IF loud THEN [s2 EXCEPT !.sent[i] = Append(@, s2.nFrames)] ELSE s2

\* onaudioprocess passing a forwarded frame ahead of what was sent before.
onaudioprocessSendsAhead(s, i, inputData) ==
  LET s1 == IF rmsExceeds(inputData, SILENCE_THRESHOLD)
            THEN resetIdleTimer([s EXCEPT !.lastSpeechTimeRef = s.now])
            ELSE s
      s2 == [s1 EXCEPT !.nFrames = @ + 1]
  IN  IF s2.now - s2.lastSpeechTimeRef < SPEECH_HANGOVER_MS
      THEN [s2 EXCEPT !.sent[i] = <<s2.nFrames>> \o @]
      ELSE s2

\* onaudioprocess of run i's processor, lines 237-262, given one frame.
onaudioprocess(s, i, inputData) ==
  LET s1 == IF rmsExceeds(inputData, SILENCE_THRESHOLD)
            THEN resetIdleTimer([s EXCEPT !.lastSpeechTimeRef = s.now])
            ELSE s
      s2 == [s1 EXCEPT !.nFrames = @ + 1]
  IN  IF s2.now - s2.lastSpeechTimeRef < SPEECH_HANGOVER_MS
      THEN [s2 EXCEPT !.sent[i] = Append(@, s2.nFrames)]
      ELSE s2

\* onclose setting the status itself instead of calling stopLiveSession.
oncloseWithoutTeardown(s, i) ==
  LET s1 == [s EXCEPT !.sess[i] = "closed"]
      s2 == IF ~s1.isUserDisconnectingRef
            THEN [s1 EXCEPT !.errorMsg = MsgTimedOut] ELSE s1
  IN  [s2 EXCEPT !.isLiveActive = FALSE, !.connectionStatus = "disconnected"]

\* onclose, lines 321-327.
onclose(s, i) ==
  LET s1 == [s EXCEPT !.sess[i] = "closed"]
      s2 == IF ~s1.isUserDisconnectingRef
            THEN [s1 EXCEPT !.errorMsg = MsgTimedOut] ELSE s1
  IN  stopLiveSession(s2, FALSE, "event")

\* onerror, lines 328-333.  A socket that reported an error is closed by the
\* browser: its close event is still to come ("failing").
onerror(s, i) ==
  LET s1 == [s EXCEPT !.sess[i] = "failing", !.errorMsg = MsgSessionError]
  IN  stopLiveSession(s1, FALSE, "event")

\* The idle timeout callback, lines 131-137.  fromRef: the timer that fires
\* is the one whose handle idleTimerRef holds.
idleExpire(s, fromRef) ==
  LET s1 == [s EXCEPT !.idleTimers = @ - 1,
                      !.idleTimerRef = IF fromRef THEN "fired" ELSE @]
      s2 == IF ~s1.isUserDisconnectingRef
            THEN [s1 EXCEPT !.errorMsg = MsgInactivity] ELSE s1
  IN  stopLiveSession(s2, FALSE, "idle")

\* onmessage with line 275 left out.
onmessageNoMax(s, currentTime) ==
  LET s0 == [s EXCEPT !.nChunks = @ + 1]
  IN  IF s.outputContextRef = Null THEN s0
      ELSE [resetIdleTimer(s0) EXCEPT
              !.decodes = Append(@, s.outputContextRef)]

\* onmessage, lines 268-278, up to the await of decodeAudioData, for a message
\* that carries an audio chunk.  currentTime is ctx.currentTime as read on
\* line 275.
onmessage(s, currentTime) ==
  LET s0 == [s EXCEPT !.nChunks = @ + 1]
  IN  IF s.outputContextRef = Null THEN s0
      ELSE [resetIdleTimer(s0) EXCEPT
              !.nextStartTimeRef = Max(@, currentTime),
              !.decodes = Append(@, s.outputContextRef)]

\* lines 278-294: the continuation after await decodeAudioData for the k-th
\* pending chunk; ok: the decode succeeded, dur: audioBuffer.duration.
afterDecode(s, k, ok, dur) ==
  LET s1 == [s EXCEPT !.decodes = Without(@, k)]
  IN  IF ok THEN [s1 EXCEPT !.nextStartTimeRef = @ + dur, !.sourcesRef = @ + 1]
      ELSE s1

\* An 'ended' listener that empties the set.
sourceEndedClears(s) ==
  [s EXCEPT !.sourcesRef = 0]

\* The 'ended' listener of a source that is in the set, lines 283-286.
sourceEnded(s) ==
  [s EXCEPT !.sourcesRef = @ - 1]


(***************************************************************************)
(* Actions: one per handler or continuation.                               *)
(***************************************************************************)

\* onclose, onerror and the idle callback when a release call of their
\* stopLiveSession throws.
oncloseThrows(s, i, thrower) ==
  LET s1 == [s EXCEPT !.sess[i] = "closed"]
      s2 == IF ~s1.isUserDisconnectingRef
            THEN [s1 EXCEPT !.errorMsg = MsgTimedOut] ELSE s1
  IN  stopLiveSessionThrows(s2, FALSE, "event", thrower)

onerrorThrows(s, i, thrower) ==
  LET s1 == [s EXCEPT !.sess[i] = "failing", !.errorMsg = MsgSessionError]
  IN  stopLiveSessionThrows(s1, FALSE, "event", thrower)

idleExpireThrows(s, fromRef, thrower) ==
  LET s1 == [s EXCEPT !.idleTimers = @ - 1,
                      !.idleTimerRef = IF fromRef THEN "fired" ELSE @]
      s2 == IF ~s1.isUserDisconnectingRef
            THEN [s1 EXCEPT !.errorMsg = MsgInactivity] ELSE s1
  IN  stopLiveSessionThrows(s2, FALSE, "idle", thrower)

CtxOutcomes == {"running", "suspended", "throwInput", "throwOutput"}
MicOutcomes == {"granted", "denied", "failed"}

\* The user clicks the start button (or start() is called anyhow), at most
\* n times past the guards.
StartWithin(n) ==
  /\ nStarted < n
  /\ \E ctx \in CtxOutcomes : Becomes(startLiveSession(St, ctx))

Start == StartWithin(MaxStarts)

StartShort == StartWithin(ShortStarts)

\* The user clicks End Call, rendered while isLiveActive (line 541, 574).
Stop ==
  /\ isLiveActive
  /\ Becomes(stopLiveSession(St, TRUE, "user"))

ResumeDone(i) ==
  /\ pc[i] = "awaitResume"
  /\ \E ok \in BOOLEAN : Becomes(afterResume(St, i, ok))

GetUserMediaDone(i) ==
  /\ pc[i] = "awaitMic"
  /\ \E mic \in MicOutcomes : Becomes(afterGetUserMedia(St, i, mic))

\* The connect() promise rejects: no callback runs and nothing awaits it.
ConnectReject(i) ==
  /\ sess[i] = "opening"
  /\ Becomes([St EXCEPT !.sess[i] = "rejected"])

OnOpen(i) ==
  /\ sess[i] = "opening"
  /\ Becomes(onopen(St, i))

MicAttach(i) ==
  /\ micTimer[i]
  /\ Becomes(micAttach(St, i))

OnClose(i) ==
  /\ sess[i] \in {"opening", "open", "closing", "failing"}
  /\ Becomes(onclose(St, i))

OnError(i) ==
  /\ sess[i] \in {"opening", "open", "closing"}
  /\ Becomes(onerror(St, i))

IdleExpire ==
  /\ idleTimers > 0
  /\ \E fromRef \in BOOLEAN :
       /\ (fromRef => idleTimerRef = "armed")
       /\ (~fromRef => idleTimers > (IF idleTimerRef = "armed" THEN 1 ELSE 0))
       /\ Becomes(idleExpire(St, fromRef))

\* An audio chunk arrives on an open session.
OnMessage(i) ==
  /\ sess[i] = "open"
  /\ nChunks < MaxChunks
  /\ \E currentTime \in 0..MaxClock : Becomes(onmessage(St, currentTime))

\* An audio chunk arrives on an open session; line 275 reads the output
\* clock.
OnMessageAt(i, max) ==
  /\ sess[i] = "open"
  /\ nChunks < max
  /\ Becomes(onmessage(St, outClock))

DecodeDone ==
  \E k \in 1..Len(decodes), ok \in BOOLEAN, dur \in 1..MaxDur :
    Becomes(afterDecode(St, k, ok, dur))

SourceEnded ==
  /\ sourcesRef > 0
  /\ Becomes(sourceEnded(St))

Next ==
  \/ Start
  \/ Stop
  \/ \E i \in Runs : ResumeDone(i)
  \/ \E i \in Runs : GetUserMediaDone(i)
  \/ \E i \in Runs : ConnectReject(i)
  \/ \E i \in Runs : OnOpen(i)
  \/ \E i \in Runs : MicAttach(i)
  \/ \E i \in Runs : OnMessage(i)
  \/ DecodeDone
  \/ SourceEnded
  \/ \E i \in Runs : OnClose(i)
  \/ \E i \in Runs : OnError(i)
  \/ IdleExpire

(***************************************************************************)
(* The same handlers in a browser whose release calls may throw.           *)
(***************************************************************************)

Throwers == {"none", "tracks", "processor"}

StopThrows ==
  /\ isLiveActive
  /\ \E th \in Throwers : Becomes(stopLiveSessionThrows(St, TRUE, "user", th))

OnCloseThrows(i) ==
  /\ sess[i] \in {"opening", "open", "closing", "failing"}
  /\ \E th \in Throwers : Becomes(oncloseThrows(St, i, th))

OnErrorThrows(i) ==
  /\ sess[i] \in {"opening", "open", "closing"}
  /\ \E th \in Throwers : Becomes(onerrorThrows(St, i, th))

IdleExpireThrows ==
  /\ idleTimers > 0
  /\ \E fromRef \in BOOLEAN, th \in Throwers :
       /\ (fromRef => idleTimerRef = "armed")
       /\ (~fromRef => idleTimers > (IF idleTimerRef = "armed" THEN 1 ELSE 0))
       /\ Becomes(idleExpireThrows(St, fromRef, th))

\* A step that runs stopLiveSession.
TeardownThrows ==
  \/ StopThrows
  \/ \E i \in Runs : OnCloseThrows(i)
  \/ \E i \in Runs : OnErrorThrows(i)
  \/ IdleExpireThrows

NextThrow ==
  \/ StartShort
  \/ \E i \in Runs : ResumeDone(i)
  \/ \E i \in Runs : GetUserMediaDone(i)
  \/ \E i \in Runs : ConnectReject(i)
  \/ \E i \in Runs : OnOpen(i)
  \/ \E i \in Runs : MicAttach(i)
  \/ \E i \in Runs : OnMessage(i)
  \/ DecodeDone
  \/ SourceEnded
  \/ TeardownThrows

(***************************************************************************)
(* The same handlers with the clock of Date.now() and setTimeout.  A       *)
(* timeout runs when it is due: time does not pass a pending timeout.      *)
(***************************************************************************)

\* Sample values, in hundredths of full scale: below, at and above the
\* threshold, of either sign.
Samples == (0 - SILENCE_THRESHOLD - 1)..(SILENCE_THRESHOLD + 1)

\* The captured frames: FrameLen samples each.
Frames == [1..FrameLen -> Samples]

\* The amounts by which time passes in one step.
Delays == {SPEECH_HANGOVER_MS - 1, SPEECH_HANGOVER_MS, IDLE_TIMEOUT_MS}

\* When the pending timeouts are due: the idle timeout in idleTimerRef and
\* the 800 ms timeouts of onopen.
Deadlines ==
  (IF idleTimerRef = "armed" THEN {idleDue(St)} ELSE {})
    \cup {micDue(St, i) : i \in {j \in Runs : micTimer[j]}}

\* Time passes, by a delay of Delays or up to the next pending timeout,
\* whichever is less, in at most n steps.
TickWithin(n) ==
  /\ nStarted > 0
  /\ nTicks < n
  /\ \E d \in Delays :
       LET due  == {x \in Deadlines : x <= now + d}
           next == IF due = {} THEN now + d
                   ELSE CHOOSE x \in due : \A y \in due : x <= y
       IN  /\ next > now
           /\ Becomes([St EXCEPT !.now = next, !.nTicks = @ + 1])

Tick == TickWithin(MaxTicks)

TickShort == TickWithin(ShortTicks)

\* The idle timeout runs: the one in idleTimerRef when it is due, or one that
\* resetIdleTimer left pending without a handle.
IdleTimeout ==
  /\ idleTimers > 0
  /\ \E fromRef \in BOOLEAN :
       /\ (fromRef => idleTimerRef = "armed" /\ now >= idleDue(St))
       /\ (~fromRef => idleTimers > (IF idleTimerRef = "armed" THEN 1 ELSE 0))
       /\ Becomes(idleExpire(St, fromRef))

\* The 800 ms timeout of run i's onopen runs when it is due.
MicTimeout(i) ==
  /\ micTimer[i]
  /\ now >= micDue(St, i)
  /\ Becomes(micAttach(St, i))

\* The attached processor of run i delivers the frame inputData.
AudioProcess(i, inputData) ==
  /\ proc[i] = "attached"
  /\ nFrames < MaxFrames
  /\ Becomes(onaudioprocess(St, i, inputData))

OnAudioProcess(i) == \E inputData \in Frames : AudioProcess(i, inputData)

\* One session of a freshly mounted widget.
StartOnce ==
  /\ nStarted = 0
  /\ \E ctx \in CtxOutcomes : Becomes(startLiveSession(St, ctx))

NextTimed ==
  \/ StartOnce
  \/ Stop
  \/ \E i \in Runs : ResumeDone(i)
  \/ \E i \in Runs : GetUserMediaDone(i)
  \/ \E i \in Runs : ConnectReject(i)
  \/ \E i \in Runs : OnOpen(i)
  \/ \E i \in Runs : MicTimeout(i)
  \/ \E i \in Runs : OnAudioProcess(i)
  \/ \E i \in Runs : OnMessageAt(i, MaxChunks)
  \/ DecodeDone
  \/ SourceEnded
  \/ \E i \in Runs : OnClose(i)
  \/ \E i \in Runs : OnError(i)
  \/ IdleTimeout
  \/ Tick

\* The capture path alone: the session receives no audio chunk.
NextVad ==
  \/ StartOnce
  \/ Stop
  \/ \E i \in Runs : ResumeDone(i)
  \/ \E i \in Runs : GetUserMediaDone(i)
  \/ \E i \in Runs : ConnectReject(i)
  \/ \E i \in Runs : OnOpen(i)
  \/ \E i \in Runs : MicTimeout(i)
  \/ \E i \in Runs : OnAudioProcess(i)
  \/ \E i \in Runs : OnClose(i)
  \/ \E i \in Runs : OnError(i)
  \/ IdleTimeout
  \/ Tick

\* The frames of constant amplitude.
FlatFrames == {[k \in 1..FrameLen |-> v] : v \in Samples}

OnFlatFrame(i) == \E inputData \in FlatFrames : AudioProcess(i, inputData)

\* The user starts a session again after the first one.
StartAgain ==
  /\ nStarted = 1
  /\ \E ctx \in CtxOutcomes : Becomes(startLiveSession(St, ctx))

\* The capture path over a session and a restart.
NextRestart ==
  \/ StartOnce
  \/ StartAgain
  \/ Stop
  \/ \E i \in Runs : ResumeDone(i)
  \/ \E i \in Runs : GetUserMediaDone(i)
  \/ \E i \in Runs : ConnectReject(i)
  \/ \E i \in Runs : OnOpen(i)
  \/ \E i \in Runs : MicTimeout(i)
  \/ \E i \in Runs : OnFlatFrame(i)
  \/ \E i \in Runs : OnClose(i)
  \/ \E i \in Runs : OnError(i)
  \/ IdleTimeout
  \/ TickShort

(***************************************************************************)
(* The same handlers with the output context's clock, and a log of what    *)
(* was scheduled (source.start, line 288).                                 *)
(***************************************************************************)

\* The log entry of a chunk that reached line 275 when the clock read at.
Arrived(at) == [at |-> at, state |-> "pending", start |-> 0, dur |-> 0]

\* The index in log of its k-th pending entry: decodes lists the pending
\* chunks in arrival order, as log does.
PendingIndex(log, k) ==
  CHOOSE n \in 1..Len(log) :
    /\ log[n].state = "pending"
    /\ Cardinality({m \in 1..n : log[m].state = "pending"}) = k

\* The output context's clock advances while the context is running.
ClockTick ==
  /\ outClock < MaxClock
  /\ \E i \in Runs : outCtx[i] = "open" /\ pc[i] # "awaitResume"
  /\ Becomes([St EXCEPT !.outClock = @ + 1])

\* An audio chunk arrives on an open session (lines 268-278), at most max
\* chunks in all.
EnqueueWithin(i, max) ==
  /\ sess[i] = "open"
  /\ nChunks < max
  /\ LET r == onmessage(St, outClock)
     IN  Becomes(IF outputContextRef = Null THEN r
                 ELSE [r EXCEPT !.chunkLog = Append(@, Arrived(outClock))])

Enqueue(i) == EnqueueWithin(i, PlayChunks)

EnqueueLong(i) == EnqueueWithin(i, LongChunks)

\* decodeAudioData of the k-th pending chunk settles and lines 279-294 run.
\* A chunk scheduled after the teardown is logged as "late".
Decoded ==
  \E k \in 1..Len(decodes), ok \in BOOLEAN, dur \in 1..MaxDur :
    LET r == afterDecode(St, k, ok, dur)
        n == PendingIndex(chunkLog, k)
    IN  Becomes([r EXCEPT !.chunkLog[n] =
                   IF ~ok THEN [@ EXCEPT !.state = "dropped"]
                   ELSE [@ EXCEPT !.state = IF outputContextRef = Null
                                            THEN "late" ELSE "scheduled",
                                  !.start = nextStartTimeRef, !.dur = dur]])

NextPlay ==
  \/ StartOnce
  \/ Stop
  \/ \E i \in Runs : ResumeDone(i)
  \/ \E i \in Runs : GetUserMediaDone(i)
  \/ \E i \in Runs : ConnectReject(i)
  \/ \E i \in Runs : OnOpen(i)
  \/ \E i \in Runs : MicAttach(i)
  \/ \E i \in Runs : Enqueue(i)
  \/ Decoded
  \/ SourceEnded
  \/ ClockTick
  \/ \E i \in Runs : OnClose(i)
  \/ \E i \in Runs : OnError(i)
  \/ IdleExpire

NextPlayLong ==
  \/ StartOnce
  \/ Stop
  \/ \E i \in Runs : ResumeDone(i)
  \/ \E i \in Runs : GetUserMediaDone(i)
  \/ \E i \in Runs : ConnectReject(i)
  \/ \E i \in Runs : OnOpen(i)
  \/ \E i \in Runs : MicAttach(i)
  \/ \E i \in Runs : EnqueueLong(i)
  \/ Decoded
  \/ SourceEnded
  \/ ClockTick
  \/ \E i \in Runs : OnClose(i)
  \/ \E i \in Runs : OnError(i)
  \/ IdleExpire

NextShort ==
  \/ StartShort
  \/ Stop
  \/ \E i \in Runs : ResumeDone(i)
  \/ \E i \in Runs : GetUserMediaDone(i)
  \/ \E i \in Runs : ConnectReject(i)
  \/ \E i \in Runs : OnOpen(i)
  \/ \E i \in Runs : MicAttach(i)
  \/ \E i \in Runs : OnMessage(i)
  \/ DecodeDone
  \/ SourceEnded
  \/ \E i \in Runs : OnClose(i)
  \/ \E i \in Runs : OnError(i)
  \/ IdleExpire

\* Up to MaxStarts sessions.
Spec == Init /\ [][Next]_vars

\* Up to ShortStarts sessions.
SpecShort == Init /\ [][NextShort]_vars

\* One session, with time.
SpecTimed == Init /\ [][NextTimed]_vars

\* One session, with time, in which no audio chunk arrives.
SpecVad == Init /\ [][NextVad]_vars

\* A session and a restart, with time; no audio chunk arrives.
SpecRestart == Init /\ [][NextRestart]_vars

\* One session, with the output clock and the playback log.
SpecPlay == Init /\ [][NextPlay]_vars

\* The same with up to LongChunks chunks.
SpecPlayLong == Init /\ [][NextPlayLong]_vars

\* Up to ShortStarts sessions, release calls may throw.
SpecThrow == Init /\ [][NextThrow]_vars

(***************************************************************************)
(* Derived notions used by the properties.                                 *)
(***************************************************************************)

Causes == {"user", "idle", "event"}

\* Everything stopLiveSession is meant to release has been released.
TornDown(s) ==
  /\ s.keepAliveIntervalRef = Null
  /\ s.idleTimerRef = "null"
  /\ s.sessionPromiseRef = Null
  /\ s.streamRef = Null
  /\ s.scriptProcessorRef = Null
  /\ s.sourcesRef = 0
  /\ s.nextStartTimeRef = 0
  /\ s.inputContextRef = Null
  /\ s.outputContextRef = Null

\* Run i's startLiveSession invocation ends in its catch block in this step:
\* it returns without having a transport session.
StartThrows(i) ==
  pc[i] # "returned" /\ pc'[i] = "returned" /\ sess'[i] = "none"

\* Run i's connect fails in this step, before its session has opened: the
\* promise rejects, or the socket reports an error or closes.
ConnectFails(i) ==
  sess[i] = "opening" /\ sess'[i] \in {"rejected", "failing", "closed"}

\* C1: start() called while the status is Connecting or Connected changes
\* nothing: no controller state and no browser object (stream, contexts,
\* timers, transport).
C1_StartWhileActiveIsNoOp ==
  [][(Start /\ connectionStatus \in {"connecting", "connected"})
       => UNCHANGED vars]_vars

\* C2: at most one transport session is open or being opened and at most one
\* capture stream is live, in every reachable state.
C2_AtMostOneSession ==
  /\ Cardinality({i \in Runs : sess[i] \in {"opening", "open"}}) <= 1
  /\ Cardinality({i \in Runs : stream[i] = "live"}) <= 1

\* C3: from a user stop until the next start (isUserDisconnectingRef is set by
\* the one and cleared by the other) the status is Disconnected, no capture
\* stream is held or live and no transport session is open, whatever pending
\* step of start() completes meanwhile.
C3_StopDiscardsPendingStart ==
  isUserDisconnectingRef =>
    /\ connectionStatus = "disconnected"
    /\ streamRef = Null
    /\ \A i \in Runs : stream[i] # "live" /\ sess[i] # "open"

\* C4: whenever the status is Disconnected, no keepalive interval runs, no
\* idle timeout is pending, no transport session is open or being opened, no
\* capture stream is live, the in-flight set is empty, nextStartTime is 0 and
\* no audio context is open.
C4_DisconnectedIsCleanedUp ==
  connectionStatus = "disconnected" =>
    /\ \A i \in Runs : keepAlive[i] # "running"
    /\ idleTimers = 0
    /\ \A i \in Runs : sess[i] \notin {"opening", "open"}
    /\ \A i \in Runs : stream[i] # "live"
    /\ sourcesRef = 0
    /\ nextStartTimeRef = 0
    /\ \A i \in Runs : inCtx[i] # "open" /\ outCtx[i] # "open"

\* C5: a step in which a start() fails (it throws into its catch block, or,
\* the user not having stopped it, its connect fails before the session has
\* opened) leaves the status Disconnected and a connection-failed message.
C5_StartFailureSurfaced ==
  [][\A i \in Runs :
       (StartThrows(i) \/ (ConnectFails(i) /\ ~isUserDisconnectingRef))
         => /\ connectionStatus' = "disconnected"
            /\ errorMsg' \in ConnFailedMsgs]_vars

\* C6: a step that is no user action changes the error message only from
\* empty to a message, and then leaves the controller Disconnected with
\* start() enabled: a surfaced message is never replaced before the user acts.
C6_OneMessagePerFatalEvent ==
  [][(~(Start \/ Stop) /\ errorMsg' # errorMsg)
       => /\ errorMsg = NoMsg
          /\ connectionStatus' = "disconnected"
          /\ ~isLiveActive']_vars

\* C7: the idle expiry leaves the inactivity message, and the closed event of
\* the session that this expiry's teardown closed leaves it in place.
C7_InactivityMessageStays ==
  [][/\ (IdleExpire /\ ~isUserDisconnectingRef) => errorMsg' = MsgInactivity
     /\ \A i \in Runs :
          (OnClose(i) /\ sess[i] = "closing" /\ closeCause[i] = "idle"
             /\ errorMsg = MsgInactivity)
            => errorMsg' = MsgInactivity]_vars

\* C8: from a user stop until the next start the error message is empty.
C8_UserStopIsSilent ==
  isUserDisconnectingRef => errorMsg = NoMsg

\* C9: a closed or error event received while the controller is Connecting or
\* Connected leaves it Disconnected with everything the teardown path
\* (stopLiveSession) handles released and no longer referenced, and, unless
\* the user has stopped the session since the last start, with an error
\* message surfaced.
C9_EventFunnelsThroughTeardown ==
  [][\A i \in Runs :
       ((OnClose(i) \/ OnError(i)) /\ connectionStatus \in {"connecting", "connected"})
         => /\ connectionStatus' = "disconnected"
            /\ ~isLiveActive'
            /\ TornDown(St')
            /\ (~isUserDisconnectingRef => errorMsg' \in {MsgTimedOut, MsgSessionError})]_vars

\* C9 witness: a remote close or error has torn down a live session that the
\* user had not stopped.
C9_Witness ==
  \E i \in Runs :
    /\ sess[i] \in {"closed", "failing"}
    /\ closeCause[i] = "none"
    /\ ~isUserDisconnectingRef
    /\ connectionStatus = "disconnected"
    /\ errorMsg \in {MsgTimedOut, MsgSessionError}
    /\ stream[i] = "stopped"

\* C10: in every reachable state, running stopLiveSession twice in succession
\* gives the state that running it once gives, and no release call (clearing
\* an interval, closing the session, stopping the tracks, disconnecting the
\* processor, closing a context: the calls that throw or reject on a released
\* object) is ever made on an object already released.
C10_TeardownIdempotent ==
  /\ ~doubleRelease
  /\ \A u \in BOOLEAN, c \in Causes :
       LET once == stopLiveSession(St, u, c)
       IN  /\ ~once.doubleRelease
           /\ stopLiveSession(once, u, c) = once
           /\ stopLiveSession(once, FALSE, "event") = once

\* C10 witness: a user stop closed the session and the closed event that
\* followed ran the teardown a second time.
C10_Witness ==
  \E i \in Runs :
    /\ closeCause[i] = "user"
    /\ sess[i] = "closed"
    /\ stream[i] = "stopped"
    /\ inCtx[i] = "closed"
    /\ keepAlive[i] = "cleared"

\* C11: every step that runs the teardown, also one in which stopping the
\* capture tracks or disconnecting the processing node throws, leaves the
\* in-flight playback set empty, nextStartTime 0, and the audio contexts that
\* the refs held closed and no longer referenced.
C11_TeardownStepsAllExecute ==
  [][TeardownThrows =>
       /\ sourcesRef' = 0
       /\ nextStartTimeRef' = 0
       /\ inputContextRef' = Null
       /\ outputContextRef' = Null
       /\ \A i \in Runs : (inputContextRef = i => inCtx'[i] = "closed")
       /\ \A i \in Runs : (outputContextRef = i => outCtx'[i] = "closed")]_vars

\* C12: while the status is Connecting or Connected, no more than 90000 ms
\* pass without an idle reset; the idle expiry leaves the status Disconnected
\* and no capture stream live.
C12_IdleWatchdogFires ==
  [][/\ connectionStatus' \in {"connecting", "connected"}
          => now' <= idleResetAt' + IDLE_TIMEOUT_MS
     /\ IdleTimeout
          => /\ connectionStatus' = "disconnected"
             /\ \A i \in Runs : stream'[i] # "live"]_vars

\* C13: at most one idle timeout is pending, the one of the latest reset,
\* and an idle expiry runs no earlier than 90000 ms after the latest reset.
C13_IdleExpiryNotEarly ==
  [][/\ idleTimers' <= 1
     /\ idleTimers' = 1 => idleTimerRef' = "armed"
     /\ IdleTimeout => now >= idleResetAt + IDLE_TIMEOUT_MS]_vars

\* C13 witness: the idle timeout has expired 90000 ms after a reset that
\* came later than the one of start().
C13_Witness ==
  /\ errorMsg = MsgInactivity
  /\ idleTimerRef = "null"
  /\ idleResetAt > 0
  /\ now = idleResetAt + IDLE_TIMEOUT_MS

\* C14: an audio chunk received while the status is Connected leaves the
\* idle timeout pending and due 90000 ms after the chunk.
C14_ChunkResetsWatchdog ==
  [][\A i \in Runs :
       (OnMessageAt(i, MaxChunks) /\ connectionStatus = "connected")
         => /\ idleTimerRef' = "armed"
            /\ idleTimers' = 1
            /\ idleResetAt' = now]_vars

\* The frames whose RMS does not exceed the threshold.
QuietFrames == {f \in Frames : ~rmsExceeds(f, SILENCE_THRESHOLD)}

\* C15: when the processor delivers a frame (the only step that counts a
\* captured frame), the frame is passed to the
\* transport exactly if now - lastSpeechTime < 800 ms, with lastSpeechTime as
\* it is after this frame, and lastSpeechTime changes only if the frame's RMS
\* exceeds the threshold.
C15_VadGate ==
  [][nFrames' # nFrames =>
       /\ \A i \in Runs :
            proc[i] = "attached"
              => IF now - lastSpeechTimeRef' < SPEECH_HANGOVER_MS
                 THEN sent' = [sent EXCEPT ![i] = Append(@, nFrames')]
                 ELSE sent' = sent
       /\ lastSpeechTimeRef' \in {lastSpeechTimeRef, now}
       /\ lastSpeechTimeRef' # lastSpeechTimeRef
            => \A i \in Runs, f \in QuietFrames : ~AudioProcess(i, f)]_vars

\* C15 witness: a first frame above the threshold was forwarded and set
\* lastSpeechTime, and a second frame, outside the hangover window, was not.
C15_Witness ==
  \E i \in Runs :
    /\ nFrames = 2
    /\ sent[i] = <<Greeting, 1>>
    /\ lastSpeechTimeRef > 0

\* C16: what a session passes to its transport starts with the greeting, and
\* a frame is passed no earlier than 800 ms after the session's onopen.
C16_GreetingBeforeFrames ==
  [][\A i \in Runs :
       /\ sent'[i] # << >> => Head(sent'[i]) = Greeting
       /\ (Len(sent'[i]) > Len(sent[i]) /\ sent'[i][Len(sent'[i])] # Greeting)
            => now >= openedAt[i] + MIC_DELAY_MS]_vars

\* C16 witness: the first frame was forwarded, after the greeting, at the
\* moment the 800 ms delay expired.
C16_Witness ==
  \E i \in Runs :
    /\ sent[i] = <<Greeting, 1>>
    /\ now = openedAt[i] + MIC_DELAY_MS

\* The chunks of the log that were scheduled while the session was up.
Scheduled(log) == {n \in 1..Len(log) : log[n].state = "scheduled"}

\* No scheduled chunk starts before the end of a scheduled chunk that arrived
\* before it.
NoOverlapInArrivalOrder(log) ==
  \A a, b \in Scheduled(log) :
    a < b => log[b].start >= log[a].start + log[a].dur

\* A step that runs stopLiveSession.
TeardownStep ==
  \/ Stop
  \/ \E i \in Runs : OnClose(i)
  \/ \E i \in Runs : OnError(i)
  \/ IdleExpire

\* C17: over the chunks of a session in arrival order, each scheduled start
\* is at or after the previous scheduled chunk's start plus its duration (so
\* the starts are non-decreasing and nothing overlaps), and at or after the
\* output clock's time when the chunk was enqueued.
C17_ScheduleNoOverlap ==
  /\ NoOverlapInArrivalOrder(chunkLog)
  /\ \A a \in Scheduled(chunkLog) : chunkLog[a].start >= chunkLog[a].at

\* C18: of two scheduled chunks, the one that arrived first has the earlier
\* scheduled start, in whatever order their decodes completed.
C18_ScheduledInArrivalOrder ==
  \A a, b \in Scheduled(chunkLog) :
    a < b => chunkLog[a].start < chunkLog[b].start

\* C19 as claimed: nextStartTime never decreases, and while an output
\* context is held it is at or after the output clock's current time.
C19_NextStartTimeAheadOfClock ==
  [][/\ nextStartTimeRef' >= nextStartTimeRef
     /\ outputContextRef' # Null => nextStartTimeRef' >= outClock']_vars

\* C19 as amended: nextStartTime decreases only where a teardown resets it
\* to 0, and when a chunk is enqueued it is at or after the output clock's
\* time at that moment.
C19_NextStartTimeAmended ==
  [][/\ nextStartTimeRef' < nextStartTimeRef
          => (TeardownStep /\ nextStartTimeRef' = 0)
     /\ \A i \in Runs :
          (Enqueue(i) /\ outputContextRef # Null)
            => nextStartTimeRef' >= outClock]_vars

\* C19 witness: a chunk was enqueued after the clock had advanced, behind a
\* chunk already scheduled, and nextStartTime is not behind that clock time.
C19_Witness ==
  /\ Len(chunkLog) = 2
  /\ chunkLog[1].state = "scheduled"
  /\ chunkLog[2].at > 0
  /\ nextStartTimeRef >= chunkLog[2].at

\* C20: a step in which a chunk's decode fails changes neither the in-flight
\* set nor the status nor nextStartTime, and in a session that has dropped a
\* chunk the other chunks are scheduled in arrival order without overlap.
C20_DecodeFailureIsolated ==
  [][/\ (\E n \in 1..Len(chunkLog) :
            chunkLog[n].state = "pending" /\ chunkLog'[n].state = "dropped")
          => /\ sourcesRef' = sourcesRef
             /\ connectionStatus' = connectionStatus
             /\ isLiveActive' = isLiveActive
             /\ nextStartTimeRef' = nextStartTimeRef
     /\ (\E n \in 1..Len(chunkLog') : chunkLog'[n].state = "dropped")
          => NoOverlapInArrivalOrder(chunkLog')]_vars

\* C21: a decode that completes after the teardown (no output context is
\* held any more) schedules nothing: the in-flight set stays as it was,
\* nextStartTime stays 0 and no chunk is started late.
C21_LateDecodeDiscarded ==
  [][(Len(decodes') < Len(decodes) /\ outputContextRef = Null)
       => /\ sourcesRef' = sourcesRef
          /\ nextStartTimeRef' = 0
          /\ \A n \in 1..Len(chunkLog') : chunkLog'[n].state # "late"]_vars

\* A chunk of the log is started (source.start, line 288) in this step.
ChunkStarted ==
  \E n \in 1..Len(chunkLog) :
    /\ chunkLog[n].state = "pending"
    /\ chunkLog'[n].state \in {"scheduled", "late"}

\* C22: whenever the status is Connected the reported state is speaking if
\* the in-flight set is non-empty and listening if it is empty; and while the
\* status stays Connected the set gains a member exactly in the step that
\* starts a chunk and loses one exactly in the step of a source's ended
\* callback.
C22_SpeakingIffInFlight ==
  [][/\ connectionStatus' = "connected"
          => visualizerState' = IF sourcesRef' > 0 THEN "speaking" ELSE "listening"
     /\ (connectionStatus = "connected" /\ connectionStatus' = "connected")
          => /\ sourcesRef' \in {sourcesRef - 1, sourcesRef, sourcesRef + 1}
             /\ sourcesRef' = sourcesRef + 1 <=> ChunkStarted
             /\ sourcesRef' = sourcesRef - 1 <=> SourceEnded]_vars

\* C22 witness: a connected session that was speaking (a chunk was started)
\* is listening again after the chunk's ended callback, with a second chunk
\* still to be decoded.
C22_Witness ==
  /\ connectionStatus = "connected"
  /\ visualizerState = "listening"
  /\ sourcesRef = 0
  /\ Len(chunkLog) = 2
  /\ chunkLog[1].state = "scheduled"
  /\ chunkLog[2].state = "pending"

\* C22 side condition over several sessions: the reported state of a
\* connected controller follows the in-flight set.
VisualizerFollowsSources ==
  connectionStatus = "connected"
    => visualizerState = IF sourcesRef > 0 THEN "speaking" ELSE "listening"

\* C23: lastSpeechTime never decreases, whatever frames are captured and
\* however often a session is started.
C23_LastSpeechTimeMonotonic ==
  [][lastSpeechTimeRef' >= lastSpeechTimeRef]_vars

\* C23 witness: a frame of the first session set lastSpeechTime, and the
\* start of a second session set it again, later.
C23_Witness ==
  /\ nStarted = 2
  /\ Len(sent[1]) = 2
  /\ lastSpeechTimeRef >= openedAt[1] + MIC_DELAY_MS
  /\ lastSpeechTimeRef = idleResetAt

\* C24: of two frames passed to a session's transport, the one captured
\* first was passed first.
C24_FramesSentInCaptureOrder ==
  \A i \in Runs :
    \A a, b \in 1..Len(sent[i]) :
      (a < b /\ sent[i][a] # Greeting /\ sent[i][b] # Greeting)
        => sent[i][a] < sent[i][b]

\* C24 witness: two captured frames were both forwarded.
C24_Witness ==
  \E i \in Runs : sent[i] = <<Greeting, 1, 2>>

\* C25: the status is never reconnecting, and a step other than a start()
\* taken while the status is Disconnected leaves it Disconnected and
\* initiates no transport connect.
C25_NoReconnectOnItsOwn ==
  [][/\ connectionStatus' # "reconnecting"
     /\ (connectionStatus = "disconnected" /\ ~Start)
          => /\ connectionStatus' = "disconnected"
             /\ \A i \in Runs : sess[i] = "none" => sess'[i] = "none"]_vars

\* C26 as claimed: the in-flight set changes only in the step that starts a
\* chunk, which adds one source, and in the step of a source's ended
\* callback, which removes one.
C26_OnlySchedulerMutatesSet ==
  [][sourcesRef' # sourcesRef
       => \/ ChunkStarted /\ sourcesRef' = sourcesRef + 1
          \/ SourceEnded /\ sourcesRef' = sourcesRef - 1]_vars

\* C26 as amended: the set changes only in those two steps and in a step
\* that runs the teardown, which leaves it empty.
C26_SchedulerAndTeardownMutateSet ==
  [][sourcesRef' # sourcesRef
       => \/ ChunkStarted /\ sourcesRef' = sourcesRef + 1
          \/ SourceEnded /\ sourcesRef' = sourcesRef - 1
          \/ TeardownStep /\ sourcesRef' = 0]_vars

\* C26 witness: two chunks were started, and after the teardown (which reset
\* nextStartTime) the set holds only the source of a chunk started late.
C26_Witness ==
  /\ Len(chunkLog) = 2
  /\ chunkLog[1].state = "scheduled"
  /\ chunkLog[2].state = "late"
  /\ sourcesRef = 1
  /\ nextStartTimeRef = chunkLog[2].dur

\* C27: the step in which getUserMedia fails, by a permission denial or by
\* any other error, leaves the status Disconnected, start() enabled and no
\* transport session created for that start, then or later; the denial
\* leaves the microphone-denied message and any other failure a different
\* message.
C27_MicFailureAbortsStart ==
  [][\A i \in Runs :
       /\ \A mic \in {"denied", "failed"} :
            (pc[i] = "awaitMic" /\ Becomes(afterGetUserMedia(St, i, mic)))
              => /\ connectionStatus' = "disconnected"
                 /\ ~isLiveActive'
                 /\ sess'[i] = "none"
                 /\ sessionPromiseRef' = sessionPromiseRef
                 /\ errorMsg' = MsgMicDenied <=> mic = "denied"
                 /\ errorMsg' \in ConnFailedMsgs
       /\ (pc[i] = "returned" /\ sess[i] = "none") => sess'[i] = "none"]_vars

\* C27 witness: a start() ended on a denied microphone.
C27_Witness ==
  \E i \in Runs :
    /\ pc[i] = "returned"
    /\ sess[i] = "none"
    /\ keepAlive[i] = "running"
    /\ connectionStatus = "disconnected"
    /\ errorMsg = MsgMicDenied

\* C28: a closed or error event of a session older than the latest one
\* started leaves the status, the start button, the error message and the
\* latest session's objects (transport, capture stream, contexts, keepalive)
\* as they were.
C28_StaleEventIgnored ==
  [][\A i \in Runs :
       ((OnClose(i) \/ OnError(i)) /\ i < nStarted)
         => /\ connectionStatus' = connectionStatus
            /\ isLiveActive' = isLiveActive
            /\ errorMsg' = errorMsg
            /\ sess'[nStarted] = sess[nStarted]
            /\ stream'[nStarted] = stream[nStarted]
            /\ inCtx'[nStarted] = inCtx[nStarted]
            /\ outCtx'[nStarted] = outCtx[nStarted]
            /\ keepAlive'[nStarted] = keepAlive[nStarted]]_vars

\* C29: the timeout of a session's onopen attaches a processor only if that
\* session is the latest one started and still holds the transport ref; at
\* most one processor is attached; and a frame is passed only to the
\* transport of the session that holds the transport ref.
C29_MicAttachOnlyForActiveSession ==
  [][\A i \in Runs :
       /\ (proc[i] # "attached" /\ proc'[i] = "attached")
            => i = nStarted /\ sessionPromiseRef = i
       /\ Cardinality({j \in Runs : proc'[j] = "attached"}) <= 1
       /\ (Len(sent'[i]) > Len(sent[i]) /\ sent'[i][Len(sent'[i])] # Greeting)
            => sessionPromiseRef = i]_vars

\* C30: in every reachable state at most one keepalive interval runs and at
\* most one idle timeout is pending, and each of them is the one whose
\* handle its ref holds.
C30_AtMostOneTimerEach ==
  /\ Cardinality({i \in Runs : keepAlive[i] = "running"}) <= 1
  /\ \A i \in Runs : keepAlive[i] = "running" => keepAliveIntervalRef = i
  /\ idleTimers <= 1
  /\ idleTimers = 1 => idleTimerRef = "armed"

\* C31: a start() in a build without API key leaves the missing-key message
\* and changes nothing else: the status stays Disconnected, the start button
\* stays enabled, and no timer, interval, audio context, capture stream or
\* transport session comes into being.
C31_MissingKeyOnlySetsMessage ==
  [][(StartShort /\ ~apiKey)
       => /\ errorMsg' = MsgMissingKey
          /\ connectionStatus' = "disconnected"
          /\ ~isLiveActive'
          /\ idleTimers' = 0
          /\ \A i \in Runs :
               /\ keepAlive'[i] = "none"
               /\ inCtx'[i] = "none" /\ outCtx'[i] = "none"
               /\ stream'[i] = "none"
               /\ sess'[i] = "none"
          /\ UNCHANGED <<apiKey, isLiveActive, connectionStatus,
                         sessionPromiseRef, inputContextRef, outputContextRef,
                         streamRef, scriptProcessorRef, keepAliveIntervalRef,
                         idleTimerRef, isUserDisconnectingRef, nextStartTimeRef,
                         sourcesRef, nStarted, pc, inCtx, outCtx, keepAlive,
                         stream, sess, closeCause, micTimer, proc, idleTimers,
                         decodes, nChunks, doubleRelease, now, idleResetAt,
                         openedAt, lastSpeechTimeRef, sent, nFrames, nTicks,
                         outClock, chunkLog, visualizerState>>]_vars

\* C31 witness: start() was called in a build without API key.
C31_Witness ==
  /\ ~apiKey
  /\ errorMsg = MsgMissingKey
  /\ nStarted = 0
  /\ idleTimerRef = "null"

====
